---- MODULE Spec2Model ----
(***************************************************************************)
(* Transaction-lifecycle engine of tx-json-rpc-server (package ethclient): *)
(* the in-memory store of signed transactions, StoreTransaction (ingest),  *)
(* CancelTransaction, changeTransactionStatus and the MonitorGas loop.     *)
(*                                                                         *)
(* Request handlers (StoreTransaction, CancelTransaction) are one action   *)
(* each: the whole call, for every order in which the map range can visit  *)
(* the records.  MonitorGas is one action per step between its suspension  *)
(* points (timer wait, eth_gasPrice call, mutex Lock, eth_sendRawTransac-  *)
(* tion call), so that handlers interleave with a scan in progress.        *)
(***************************************************************************)
EXTENDS Integers, FiniteSets, Sequences, TLC

\* ------------------------------------------------------------------ bounds
MaxOps == 3          \* handler calls (ingest + cancel) in one behaviour
MaxTicks == 2        \* ticker firings of the monitor in one behaviour
IntBits == 8         \* bits of Go's int64, scaled down to the model's integers

\* --------------------------------------------------------- the transactions
\* Addresses; NilAddr is the absent recipient (tx.To() == nil).
NilAddr == "nil"

\* The chain every modelled transaction was signed for.
ChainId == 5

\* The signed transactions a wallet can submit, by hash.  A transaction is
\* immutable: its hash determines every field.
\*   hA  the original payment                         caps 1
\*   hB  hA re-issued with higher fees (speed-up)      caps 2
\*   hC  zero-value self-send with higher fees (cancel) caps 3
\*   hD  as hB, other split of the same caps           caps 2
\*   hE  same sender and nonce, other recipient         caps 3
\*   hF  another sender                                caps 2
\*   hG  a transaction whose signature does not recover  caps 2
\*   hH  a second cancel, with higher fees than hC       caps 4
\*   hN  a contract creation (no recipient)              caps 2
\*   hP  hA re-issued with the largest fee cap an int64 holds, tip 1
\*   hQ  hA re-issued with a fee cap one bit wider than an int64, tip 2
\* gasFeeCap, gasTipCap and value are big integers (*big.Int).
Transactions ==
  [ hA |-> [hash |-> "hA", from |-> "S", nonce |-> 0, to |-> "B", value |-> 1,
            data |-> <<>>, gasFeeCap |-> 1, gasTipCap |-> 0,
            chainId |-> ChainId, sigOk |-> TRUE],
    hB |-> [hash |-> "hB", from |-> "S", nonce |-> 0, to |-> "B", value |-> 1,
            data |-> <<>>, gasFeeCap |-> 1, gasTipCap |-> 1,
            chainId |-> ChainId, sigOk |-> TRUE],
    hC |-> [hash |-> "hC", from |-> "S", nonce |-> 0, to |-> "S", value |-> 0,
            data |-> <<>>, gasFeeCap |-> 2, gasTipCap |-> 1,
            chainId |-> ChainId, sigOk |-> TRUE],
    hD |-> [hash |-> "hD", from |-> "S", nonce |-> 0, to |-> "B", value |-> 1,
            data |-> <<>>, gasFeeCap |-> 2, gasTipCap |-> 0,
            chainId |-> ChainId, sigOk |-> TRUE],
    hE |-> [hash |-> "hE", from |-> "S", nonce |-> 0, to |-> "C", value |-> 1,
            data |-> <<>>, gasFeeCap |-> 2, gasTipCap |-> 1,
            chainId |-> ChainId, sigOk |-> TRUE],
    hF |-> [hash |-> "hF", from |-> "R", nonce |-> 0, to |-> "B", value |-> 1,
            data |-> <<1>>, gasFeeCap |-> 1, gasTipCap |-> 1,
            chainId |-> ChainId, sigOk |-> TRUE],
    hG |-> [hash |-> "hG", from |-> "S", nonce |-> 0, to |-> "B", value |-> 1,
            data |-> <<>>, gasFeeCap |-> 1, gasTipCap |-> 1,
            chainId |-> ChainId, sigOk |-> FALSE],
    hH |-> [hash |-> "hH", from |-> "S", nonce |-> 0, to |-> "S", value |-> 0,
            data |-> <<>>, gasFeeCap |-> 2, gasTipCap |-> 2,
            chainId |-> ChainId, sigOk |-> TRUE],
    hN |-> [hash |-> "hN", from |-> "S", nonce |-> 0, to |-> NilAddr, value |-> 0,
            data |-> <<1>>, gasFeeCap |-> 1, gasTipCap |-> 1,
            chainId |-> ChainId, sigOk |-> TRUE],
    hP |-> [hash |-> "hP", from |-> "S", nonce |-> 0, to |-> "B", value |-> 1,
            data |-> <<>>, gasFeeCap |-> 2^(IntBits - 1) - 1, gasTipCap |-> 1,
            chainId |-> ChainId, sigOk |-> TRUE],
    hQ |-> [hash |-> "hQ", from |-> "S", nonce |-> 0, to |-> "B", value |-> 1,
            data |-> <<>>, gasFeeCap |-> 2^IntBits, gasTipCap |-> 2,
            chainId |-> ChainId, sigOk |-> TRUE] ]

Hashes == DOMAIN Transactions

\* A well-formed hash that no transaction has (cancel_transaction of an
\* unknown hash).
UnknownHash == "hX"

\* Gas prices the upstream node can report.
Prices == {2, 4}

\* Gas prices of a cheap period: every modelled transaction can be eligible.
LowPrices == {1, 2}

\* The transactions wallets submit while the node reports Prices.
Wallet == Hashes \ {"hG", "hH", "hN", "hP", "hQ"}

\* The price the node reports while the monitor runs without a bound on its
\* ticks: every transaction of LiveWallet is eligible at it.
LivePrices == {2}

\* The transactions submitted in those behaviours: two payments of different
\* senders and the cancel of the first.
LiveWallet == {"hB", "hC", "hF"}

\* The transactions wallets submit while the node reports LowPrices: the
\* payment, its speed-up, its cancel and the unrecoverable signature.
LowWallet == {"hA", "hB", "hC", "hG"}

\* The transactions of a wallet that replaces and cancels its payment more
\* than once, and deploys a contract with the same nonce.
ReplaceWallet == {"hA", "hB", "hC", "hE", "hH", "hN"}

\* The transactions of a wallet that re-issues its payment with fee caps at
\* and beyond the range of an int64.
LargeWallet == {"hA", "hP", "hQ"}

\* ------------------------------------------------------------------ types
Statuses == {"STORED", "CANCELED", "SPEDUP", "FAILED", "BROADCASTED"}

\* Variant of allowedTransitions that lets a CANCELED record be cancelled again.
allowedTransitions_cancelAgain ==
  [ s \in Statuses |->
      CASE s = "STORED"      -> {"CANCELED", "SPEDUP", "FAILED", "BROADCASTED"}
        [] s = "CANCELED"    -> {"SPEDUP", "CANCELED"}
        [] s = "SPEDUP"      -> {}
        [] s = "FAILED"      -> {}
        [] s = "BROADCASTED" -> {} ]

allowedTransitions ==
  [ s \in Statuses |->
      CASE s = "STORED"      -> {"CANCELED", "SPEDUP", "FAILED", "BROADCASTED"}
        [] s = "CANCELED"    -> {"SPEDUP"}
        [] s = "SPEDUP"      -> {}
        [] s = "FAILED"      -> {}
        [] s = "BROADCASTED" -> {} ]

\* error values
NoErr == [kind |-> "nil", status |-> "-"]
ErrNotFound == [kind |-> "transaction not found", status |-> "-"]
ErrInvalidTransition == [kind |-> "invalid status transition", status |-> "-"]
ErrPanic == [kind |-> "panic", status |-> "-"]

\* fmt.Errorf("already %s", oldTx.Status.String())
ErrAlready(status) == [kind |-> "already", status |-> status]

\* ethTypes.Sender(LatestSignerForChainID(chainId), tx): the address that
\* signed tx, or "err" when the signature does not recover under that signer.
Sender(signerChainId, tx) ==
  IF tx.sigOk /\ tx.chainId = signerChainId THEN tx.from ELSE "err"

\* The int64 with the low IntBits bits of x (two's complement): what an
\* int64 addition keeps of its exact result.
Wrap(x) ==
  LET m == x % (2^IntBits) IN
  IF m >= 2^(IntBits - 1) THEN m - 2^IntBits ELSE m

\* (*big.Int).Int64() of a non-negative x: the low bits of x as an int64.
Int64(x) == Wrap(x)

\* tx.GasFeeCap().Int64() + tx.GasTipCap().Int64()
GasCap(tx) == Wrap(Int64(tx.gasFeeCap) + Int64(tx.gasTipCap))

\* The record stored under a key: the transaction (by its hash) and Status.
StoredRecord(tx) == [hash |-> tx.hash, status |-> "STORED"]

\* ec.storedTransactions[hash] = tx
MapAssign(st, key, rec) ==
  [k \in (DOMAIN st) \cup {key} |-> IF k = key THEN rec ELSE st[k]]

EmptyStore == [k \in {} |-> StoredRecord(Transactions["hA"])]

\* ------------------------------------------------- changeTransactionStatus
\* Variant of changeTransactionStatus that writes the status without looking
\* at the table.
changeTransactionStatus_unchecked(st, hash, newStatus) ==
  IF hash \notin DOMAIN st
    THEN [store |-> st, err |-> ErrNotFound]
    ELSE [store |-> [st EXCEPT ![hash].status = newStatus], err |-> NoErr]

\* Variant of changeTransactionStatus that writes the status before it looks
\* at the table.
changeTransactionStatus_writeThenFail(st, hash, newStatus) ==
  IF hash \notin DOMAIN st
    THEN [store |-> st, err |-> ErrNotFound]
    ELSE [store |-> [st EXCEPT ![hash].status = newStatus],
          err |-> IF newStatus \in allowedTransitions[st[hash].status]
                    THEN NoErr ELSE ErrInvalidTransition]

\* Variant of changeTransactionStatus that deletes a cancelled record instead
\* of keeping it as CANCELED.
changeTransactionStatus_deletes(st, hash, newStatus) ==
  IF hash \notin DOMAIN st
    THEN [store |-> st, err |-> ErrNotFound]
    ELSE IF newStatus \in allowedTransitions[st[hash].status]
           THEN [store |-> IF newStatus = "CANCELED"
                             THEN [k \in (DOMAIN st) \ {hash} |-> st[k]]
                             ELSE [st EXCEPT ![hash].status = newStatus],
                 err |-> NoErr]
           ELSE [store |-> st, err |-> ErrInvalidTransition]

\* The result of changeTransactionStatus(hash, newStatus) on the store st:
\* the store afterwards and the error returned.  It runs under the mutex
\* (Lock ... defer Unlock), so it is one step for every other task.
changeTransactionStatus(st, hash, newStatus) ==
  IF hash \notin DOMAIN st
    THEN [store |-> st, err |-> ErrNotFound]
    ELSE IF newStatus \in allowedTransitions[st[hash].status]
           THEN [store |-> [st EXCEPT ![hash].status = newStatus], err |-> NoErr]
           ELSE [store |-> st, err |-> ErrInvalidTransition]

\* --------------------------------------------------------- StoreTransaction
\* Variant of CancelPattern that accepts equal caps.
CancelPattern_ge(newFromAddress, tx, oldTx) ==
  /\ newFromAddress = tx.to
  /\ Int64(tx.value) = 0
  /\ GasCap(tx) >= GasCap(oldTx)
  /\ Len(tx.data) = 0

\* "In case of a cancel transaction in a metamask way."
CancelPattern(newFromAddress, tx, oldTx) ==
  /\ newFromAddress = tx.to
  /\ Int64(tx.value) = 0
  /\ GasCap(tx) > GasCap(oldTx)
  /\ Len(tx.data) = 0

\* Variant of SpeedUpPattern with the comparison of the caps inverted.
SpeedUpPattern_lt(tx, oldTx) ==
  /\ tx.to = oldTx.to
  /\ Int64(tx.value) = Int64(oldTx.value)
  /\ GasCap(tx) < GasCap(oldTx)
  /\ tx.data = oldTx.data

\* Variant of SpeedUpPattern that accepts equal caps.
SpeedUpPattern_ge(tx, oldTx) ==
  /\ tx.to = oldTx.to
  /\ Int64(tx.value) = Int64(oldTx.value)
  /\ GasCap(tx) >= GasCap(oldTx)
  /\ tx.data = oldTx.data

\* "In case of a speed up transaction in a metamask way."
SpeedUpPattern(tx, oldTx) ==
  /\ tx.to = oldTx.to
  /\ Int64(tx.value) = Int64(oldTx.value)
  /\ GasCap(tx) > GasCap(oldTx)
  /\ tx.data = oldTx.data

\* Variant of Superseded that skips no record.
Superseded_never(oldStatus) == FALSE

\* if oldTx.Status == types.SPEDUP { continue }
Superseded(oldStatus) == oldStatus = "SPEDUP"

\* Variant of AfterLoop without the isCancelingTx test: every transaction
\* that leaves the loop is stored.
AfterLoop_stores(st, tx, isCancelingTx) ==
  [store |-> MapAssign(st, tx.hash, StoredRecord(tx)), err |-> NoErr]

\* The code after the range loop: a cancelling transaction is not stored,
\* any other is stored with Status STORED.
AfterLoop(st, tx, isCancelingTx) ==
  IF isCancelingTx
    THEN [store |-> st, err |-> NoErr]
    ELSE [store |-> MapAssign(st, tx.hash, StoredRecord(tx)), err |-> NoErr]

RECURSIVE RangeLoop(_, _, _, _, _)
RECURSIVE LoopBody(_, _, _, _, _, _)

\* The outcomes of the rest of `for oldHash, oldTx := range storedTransactions`
\* when the keys in remaining are still to be visited: one outcome for every
\* order the map iteration can take.  canLock says whether the mutex is free;
\* a path that reaches changeTransactionStatus while it is held waits in Lock
\* and has no outcome in this state.
RangeLoop(st, tx, remaining, isCancelingTx, canLock) ==
  IF remaining = {}
    THEN {AfterLoop(st, tx, isCancelingTx)}
    ELSE UNION { LoopBody(st, tx, oldHash, remaining \ {oldHash},
                          isCancelingTx, canLock) : oldHash \in remaining }

\* One iteration of the loop, on the record under oldHash.
LoopBody(st, tx, oldHash, rest, isCancelingTx, canLock) ==
  LET oldTx == Transactions[st[oldHash].hash]
      oldStatus == st[oldHash].status
      oldFromAddress == Sender(tx.chainId, oldTx)
      newFromAddress == Sender(tx.chainId, tx)
      continue == RangeLoop(st, tx, rest, isCancelingTx, canLock)
  IN
  IF oldHash = tx.hash THEN {[store |-> st, err |-> ErrAlready(oldStatus)]}
  ELSE IF Superseded(oldStatus) THEN continue
  ELSE IF oldFromAddress = "err" THEN continue
  ELSE IF newFromAddress = "err" THEN {AfterLoop(st, tx, isCancelingTx)}
  ELSE IF ~(oldFromAddress = newFromAddress /\ tx.nonce = oldTx.nonce)
    THEN continue
  ELSE IF tx.to = NilAddr THEN {[store |-> st, err |-> ErrPanic]}
  ELSE IF CancelPattern(newFromAddress, tx, oldTx)
    THEN IF ~canLock THEN {}
         ELSE LET r == changeTransactionStatus(st, oldHash, "CANCELED") IN
              IF r.err # NoErr
                THEN RangeLoop(st, tx, rest, TRUE, canLock)
                ELSE {[store |-> r.store, err |-> NoErr]}
  ELSE IF oldTx.to = NilAddr THEN {[store |-> st, err |-> ErrPanic]}
  ELSE IF SpeedUpPattern(tx, oldTx)
    THEN IF ~canLock THEN {}
         ELSE LET r == changeTransactionStatus(st, oldHash, "SPEDUP") IN
              IF r.err # NoErr
                THEN {[store |-> st, err |-> r.err]}
                ELSE {[store |-> MapAssign(r.store, tx.hash, StoredRecord(tx)),
                       err |-> NoErr]}
  ELSE continue

\* All outcomes of StoreTransaction(tx) on the store st.
StoreTransaction(st, tx, canLock) ==
  RangeLoop(st, tx, DOMAIN st, FALSE, canLock)

\* What one iteration of the range loop does, for a handler that runs the
\* loop step by step next to other goroutines:
\*   next   "continue", "break", "return", or "write" (the speed-up matched:
\*          the assignment of the new record and `return nil` follow)
\*   lock   the iteration calls changeTransactionStatus
IterationResult(next, st, err, isCancelingTx, lock) ==
  [next |-> next, store |-> st, err |-> err, isCancelingTx |-> isCancelingTx,
   lock |-> lock]

Iteration(st, tx, oldHash, isCancelingTx) ==
  LET oldTx == Transactions[st[oldHash].hash]
      oldStatus == st[oldHash].status
      oldFromAddress == Sender(tx.chainId, oldTx)
      newFromAddress == Sender(tx.chainId, tx)
      continue == IterationResult("continue", st, NoErr, isCancelingTx, FALSE)
  IN
  IF oldHash = tx.hash
    THEN IterationResult("return", st, ErrAlready(oldStatus), isCancelingTx, FALSE)
  ELSE IF Superseded(oldStatus) THEN continue
  ELSE IF oldFromAddress = "err" THEN continue
  ELSE IF newFromAddress = "err"
    THEN IterationResult("break", st, NoErr, isCancelingTx, FALSE)
  ELSE IF ~(oldFromAddress = newFromAddress /\ tx.nonce = oldTx.nonce)
    THEN continue
  ELSE IF tx.to = NilAddr
    THEN IterationResult("return", st, ErrPanic, isCancelingTx, FALSE)
  ELSE IF CancelPattern(newFromAddress, tx, oldTx)
    THEN LET r == changeTransactionStatus(st, oldHash, "CANCELED") IN
         IF r.err # NoErr
           THEN IterationResult("continue", st, NoErr, TRUE, TRUE)
           ELSE IterationResult("return", r.store, NoErr, TRUE, TRUE)
  ELSE IF oldTx.to = NilAddr
    THEN IterationResult("return", st, ErrPanic, isCancelingTx, FALSE)
  ELSE IF SpeedUpPattern(tx, oldTx)
    THEN LET r == changeTransactionStatus(st, oldHash, "SPEDUP") IN
         IF r.err # NoErr
           THEN IterationResult("return", st, r.err, isCancelingTx, TRUE)
           ELSE IterationResult("write", r.store, NoErr, isCancelingTx, TRUE)
  ELSE continue

\* ------------------------------------------------------------ upstream node
\* What the node and the network do with one HTTP request of the client:
\*   transport  "ok", or "err" when Client.Do returns an error (timeout,
\*              connection failure, cancelled context)
\*   http       the status code of the response
\*   body       "json" when the body decodes into a JSONRPCResponse
\*   error      the message of the error object ("-": no error object)
\*   result     the result member: absent, a number, or a string
UpstreamReply(transport, http, body, error, result) ==
  [transport |-> transport, http |-> http, body |-> body, error |-> error,
   result |-> result]

NoResult == [type |-> "nil", chars |-> <<>>]
NumberResult == [type |-> "number", chars |-> <<>>]
StringResult(chars) == [type |-> "string", chars |-> chars]

\* The digits of base 16, by value + 1.
HexDigits ==
  <<"0", "1", "2", "3", "4", "5", "6", "7", "8", "9", "a", "b", "c", "d", "e", "f">>

\* The node's encoding of a small quantity: "0x" and one hex digit.
HexString(n) == <<"0", "x", HexDigits[n + 1]>>

RECURSIVE HexValue(_)
\* The value of a sequence of hex digits.
HexValue(chars) ==
  IF chars = <<>> THEN 0
  ELSE 16 * HexValue(SubSeq(chars, 1, Len(chars) - 1))
       + (CHOOSE i \in 1..16 : HexDigits[i] = chars[Len(chars)]) - 1

RECURSIVE StripZeros(_)
\* The digits without leading zeros.
StripZeros(chars) ==
  IF chars # <<>> /\ chars[1] = "0" THEN StripZeros(Tail(chars)) ELSE chars

\* The digits do not fit a signed 64-bit integer: more than 16 significant
\* hex digits, or 16 of which the first is 8 or more.
OutOfRange(digits) ==
  LET sig == StripZeros(digits) IN
  \/ Len(sig) > 16
  \/ Len(sig) = 16 /\ sig[1] \notin {"0", "1", "2", "3", "4", "5", "6", "7"}

\* strconv.ParseInt(s, 16, 64): an optional sign, then at least one hex
\* digit and nothing else; out of the 64-bit range is an error as well.
ParseInt(chars) ==
  LET signed == chars # <<>> /\ chars[1] \in {"+", "-"}
      digits == IF signed THEN Tail(chars) ELSE chars
  IN
  IF digits = <<>> \/ \E i \in 1..Len(digits) :
                        \A d \in 1..16 : HexDigits[d] # digits[i]
    THEN [err |-> "invalid syntax", value |-> 0]
  ELSE IF OutOfRange(digits)
    THEN [err |-> "value out of range", value |-> 0]
  ELSE [err |-> "nil",
        value |-> IF signed /\ chars[1] = "-" THEN 0 - HexValue(digits)
                  ELSE HexValue(digits)]

TransportError == UpstreamReply("err", 0, "-", "-", NoResult)
HttpError == UpstreamReply("ok", 500, "json", "-", NoResult)
HttpErrorWithErrorObject == UpstreamReply("ok", 500, "json", "nonce too low", NoResult)
UndecodableBody == UpstreamReply("ok", 200, "garbage", "-", NoResult)
ErrorObject == UpstreamReply("ok", 200, "json", "nonce too low", NoResult)
ResultReply(result) == UpstreamReply("ok", 200, "json", "-", result)

\* The reply of a node that accepted a raw transaction: its hash.
Accepted == ResultReply(StringResult(<<"0", "x", "a", "b">>))

\* The reply of a node whose gas price is p.
PriceReply(p) == ResultReply(StringResult(HexString(p)))

\* Replies to eth_sendRawTransaction in the behaviours of the store: one of
\* each class the monitor tells apart.
SendReplies == {Accepted, ErrorObject, TransportError}

\* Replies to eth_gasPrice, other than a price, in those behaviours.
GasReplies == {TransportError}

\* Every kind of reply to eth_sendRawTransaction.
AllSendReplies ==
  {Accepted, ResultReply(NoResult), ErrorObject, TransportError, HttpError,
   HttpErrorWithErrorObject, UndecodableBody}

\* Every kind of bad reply to eth_gasPrice: no reply, a bad status, a bad
\* body, an error object, and a result that is absent, not a string, shorter
\* than "0x", "0x" alone, or not hex.
AllGasReplies ==
  {TransportError, HttpError, UndecodableBody, ErrorObject,
   ResultReply(NoResult), ResultReply(NumberResult),
   ResultReply(StringResult(<<>>)), ResultReply(StringResult(<<"0">>)),
   ResultReply(StringResult(<<"0", "x">>)),
   ResultReply(StringResult(<<"0", "x", "z">>))}

\* Variant of doRequest that does not look at the HTTP status.
doRequest_anyStatus(reply) ==
  IF reply.transport = "err"
    THEN [err |-> "transport", error |-> "-", result |-> NoResult]
  ELSE IF reply.body # "json"
    THEN [err |-> "decode", error |-> "-", result |-> NoResult]
  ELSE [err |-> "nil", error |-> reply.error, result |-> reply.result]

\* doRequest: the decoded JSONRPCResponse, or the error of the transport, of
\* a status other than 200, or of the decoder.
doRequest(reply) ==
  IF reply.transport = "err"
    THEN [err |-> "transport", error |-> "-", result |-> NoResult]
  ELSE IF reply.http # 200
    THEN [err |-> "unexpected http status code", error |-> "-", result |-> NoResult]
  ELSE IF reply.body # "json"
    THEN [err |-> "decode", error |-> "-", result |-> NoResult]
  ELSE [err |-> "nil", error |-> reply.error, result |-> reply.result]

\* sendTransaction: (rpcError, err).
sendTransaction(reply) ==
  LET resp == doRequest(reply) IN
  IF resp.err # "nil" THEN [rpcError |-> FALSE, err |-> resp.err]
  ELSE IF resp.error # "-" THEN [rpcError |-> TRUE, err |-> resp.error]
  ELSE [rpcError |-> FALSE, err |-> "nil"]

\* getGasPrice: the price, an error, or a panic: resp.Result.(string) panics
\* on a result that is not a string, and [2:] on a string shorter than 2.
getGasPrice(reply) ==
  LET resp == doRequest(reply) IN
  IF resp.err # "nil" THEN [kind |-> "err", err |-> resp.err, price |-> 0]
  ELSE IF resp.error # "-" THEN [kind |-> "err", err |-> resp.error, price |-> 0]
  ELSE IF resp.result.type # "string" \/ Len(resp.result.chars) < 2
    THEN [kind |-> "panic", err |-> "nil", price |-> 0]
  ELSE LET n == ParseInt(SubSeq(resp.result.chars, 3, Len(resp.result.chars))) IN
       IF n.err # "nil" THEN [kind |-> "err", err |-> n.err, price |-> 0]
       ELSE [kind |-> "ok", err |-> "nil", price |-> n.value]

\* -------------------------------------------------------------------- state
VARIABLES
  store,        \* ec.storedTransactions: key -> [hash, status]
  mutex,        \* ec.transactionsMutex: "free", or "monitor" while it holds it
  mpc,          \* where MonitorGas is: wait, gasPrice, range, lock, send, change, done
  gasPrice,     \* the monitor's gasPrice of the current tick (0: none)
  toVisit,      \* keys the monitor's range loop has not visited yet
  cur,          \* the monitor's loop variable hash ("-": none)
  newStatus,    \* the status the monitor is about to write for cur
  ev,           \* the last step taken: operation, argument, result, store before
  canceledOk,   \* hashes whose cancellation was reported as a success
  nOps,         \* handler calls so far
  nTicks,       \* ticks so far
  tickSends,    \* sends of the current tick: hash -> [status at the send, reply]
  sentReplies,  \* every <<hash, reply>> a send has returned so far
  ctxDone,      \* the context passed to MonitorGas has been cancelled
  wallet,       \* the transactions clients submit in this behaviour
  prices,       \* the gas prices the upstream node reports in this behaviour
  upstream,     \* its other replies: [send: to a raw transaction, gas: to eth_gasPrice]
  handlers,     \* the handler goroutines inside StoreTransaction: pc, tx, loop state
  base          \* the store when the calls now in flight began

vars == <<store, mutex, mpc, gasPrice, toVisit, cur, newStatus, ev,
          canceledOk, nOps, nTicks, tickSends, sentReplies, ctxDone,
          wallet, prices, upstream, handlers, base>>

\* The environment of a behaviour; no action changes it.
envVars == <<wallet, prices, upstream>>

\* The handler goroutines that run StoreTransaction step by step.
Goroutines == {1, 2}

\* The value of mutex while a handler goroutine holds it.
HandlerName == [g \in Goroutines |-> IF g = 1 THEN "handler1" ELSE "handler2"]

\* A goroutine outside StoreTransaction.
Idle ==
  [pc |-> "idle", h |-> "-", remaining |-> {}, isCancelingTx |-> FALSE,
   err |-> NoErr]

\* The state of the step-by-step handlers; the actions that run a handler as
\* one step leave it alone.
stepVars == <<handlers, base>>

monitorVars == <<mpc, gasPrice, toVisit, cur, newStatus, nTicks, tickSends,
                 sentReplies, ctxDone>>

\* No send in this tick yet.
NoSends == [h \in {} |-> [status |-> "-", reply |-> "-"]]

\* No reply and no return value: the step is not the end of an upstream call.
NoReply == UpstreamReply("-", 0, "-", "-", NoResult)
NoReturn == [err |-> "-"]

\* No response: the step is not the end of a request.
NoResponse == [result |-> "-", code |-> 0, message |-> <<>>]

Event(op, h, err, status, pre) ==
  [op |-> op, h |-> h, err |-> err, status |-> status, pre |-> pre,
   resp |-> NoResponse, reply |-> NoReply, ret |-> NoReturn]

\* The state after Init(): an empty map, an unlocked mutex, MonitorGas waiting
\* for its first tick.
InitClient ==
  /\ store = EmptyStore
  /\ mutex = "free"
  /\ mpc = "wait"
  /\ gasPrice = 0
  /\ toVisit = {}
  /\ cur = "-"
  /\ newStatus = "-"
  /\ ev = Event("init", "-", NoErr, "-", EmptyStore)
  /\ canceledOk = {}
  /\ nOps = 0
  /\ nTicks = 0
  /\ tickSends = NoSends
  /\ sentReplies = {}
  /\ ctxDone = FALSE
  /\ handlers = [g \in Goroutines |-> Idle]
  /\ base = EmptyStore

\* The node of the behaviours of the store.
Upstream == [send |-> SendReplies, gas |-> GasReplies]

\* A node that gives every kind of reply.
AnyUpstream == [send |-> AllSendReplies, gas |-> AllGasReplies]

Init ==
  /\ InitClient
  /\ wallet = Wallet
  /\ prices = Prices
  /\ upstream = Upstream

InitLowPrice ==
  /\ InitClient
  /\ wallet = LowWallet
  /\ prices = LowPrices
  /\ upstream = Upstream

InitLive ==
  /\ InitClient
  /\ wallet = LiveWallet
  /\ prices = LivePrices
  /\ upstream = Upstream

\* Two payments of different senders, submitted to a server whose node gives
\* every kind of reply.
UpstreamWallet == {"hB", "hF"}

\* The payment, its speed-up and its cancel, submitted by two clients at a
\* time.
ConcurrentWallet == {"hA", "hB", "hC"}

InitConcurrent ==
  /\ InitClient
  /\ wallet = ConcurrentWallet
  /\ prices = LivePrices
  /\ upstream = Upstream

InitReplace ==
  /\ InitClient
  /\ wallet = ReplaceWallet
  /\ prices = LowPrices
  /\ upstream = Upstream

InitLargeCaps ==
  /\ InitClient
  /\ wallet = LargeWallet
  /\ prices = Prices
  /\ upstream = Upstream

InitUpstream ==
  /\ InitClient
  /\ wallet = UpstreamWallet
  /\ prices = LivePrices
  /\ upstream = AnyUpstream

\* The monitor's range loop is between its first and its last iteration.
Ranging == mpc \in {"range", "lock", "send", "change"}

\* Records that the step from st to st2 moved to CANCELED.
NewlyCanceled(st, st2) ==
  {h \in (DOMAIN st) \cap (DOMAIN st2) :
     st[h].status # "CANCELED" /\ st2[h].status = "CANCELED"}

\* ---------------------------------------------------------------- front-end
\* err.Error(): the text the error was made with; the status of a duplicate
\* is printed by TransactionStatus.String().
ErrorString(err) ==
  IF err.kind = "already" THEN <<"already", err.status>> ELSE <<err.kind>>

\* writeJSONRPCError(w, id, code, message): an error object and no result.
writeJSONRPCError(code, message) ==
  [result |-> "-", code |-> code, message |-> message]

\* Variant of SendRawTransactionResponse that answers a duplicate the way an
\* Ethereum node does.
SendRawTransactionResponse_alreadyKnown(tx, err) ==
  IF err = ErrPanic THEN writeJSONRPCError(-32000, <<"server error">>)
  ELSE IF err # NoErr THEN writeJSONRPCError(-32000, <<"already known">>)
  ELSE [result |-> tx.hash, code |-> 0, message |-> <<>>]

\* The response of handleRequest to eth_sendRawTransaction with a well-formed
\* raw transaction, given what StoreTransaction returned; a panic of the
\* handler is answered by recoverPanic.
SendRawTransactionResponse(tx, err) ==
  IF err = ErrPanic THEN writeJSONRPCError(-32000, <<"server error">>)
  ELSE IF err # NoErr THEN writeJSONRPCError(-32000, ErrorString(err))
  ELSE [result |-> tx.hash, code |-> 0, message |-> <<>>]

\* Variant of CancelTransactionResponse that reports every call as a success.
CancelTransactionResponse_alwaysOk(err) ==
  [result |-> "Transaction canceled", code |-> 0, message |-> <<>>]

\* The response of handleRequest to cancel_transaction with a well-formed
\* hash, given what CancelTransaction returned.
CancelTransactionResponse(err) ==
  IF err # NoErr THEN writeJSONRPCError(-32000, ErrorString(err))
  ELSE [result |-> "Transaction canceled", code |-> 0, message |-> <<>>]

\* ----------------------------------------------------------------- handlers
\* eth_sendRawTransaction: StoreTransaction(tx), the whole call.  A key added
\* while the monitor ranges over the map may or may not be produced by that
\* iteration.
Ingest(h) ==
  /\ nOps < MaxOps
  /\ mpc # "crashed"
  /\ h \in wallet
  /\ \E out \in StoreTransaction(store, Transactions[h], mutex = "free") :
       /\ store' = out.store
       /\ ev' = [Event("ingest", h, out.err, "-", store) EXCEPT
                  !.resp = SendRawTransactionResponse(Transactions[h], out.err)]
       /\ canceledOk' = canceledOk \cup NewlyCanceled(store, out.store)
       /\ \E seen \in BOOLEAN :
            toVisit' = IF Ranging /\ seen
                         THEN toVisit \cup ((DOMAIN out.store) \ (DOMAIN store))
                         ELSE toVisit
  /\ nOps' = nOps + 1
  /\ UNCHANGED <<mutex, mpc, gasPrice, cur, newStatus, nTicks, tickSends,
                 sentReplies, ctxDone, envVars, stepVars>>

\* ------------------------------------------- StoreTransaction, step by step
\* StoreTransaction takes the mutex only inside changeTransactionStatus, so
\* two handler goroutines run its loop and its map writes interleaved.  The
\* steps are: the entry, each iteration of the range loop, the end of the
\* loop, and the assignment storedTransactions[hash] = tx with `return nil`.

\* No goroutine is inside StoreTransaction.
Quiescent == \A g \in Goroutines : handlers[g].pc \in {"idle", "done"}

\* A handler goroutine enters StoreTransaction(tx) and starts the range.  A
\* goroutine that has returned takes its next request once the calls in
\* flight have returned: the model follows two overlapping calls at a time.
IngestBegin(g, h) ==
  /\ nOps < MaxOps
  /\ mpc # "crashed"
  /\ h \in wallet
  /\ handlers[g].pc = "idle" \/ (handlers[g].pc = "done" /\ Quiescent)
  /\ handlers' =
       [k \in Goroutines |->
          IF k = g
            THEN [pc |-> "scan", h |-> h, remaining |-> DOMAIN store,
                  isCancelingTx |-> FALSE, err |-> NoErr]
            ELSE IF Quiescent THEN Idle ELSE handlers[k]]
  /\ base' = IF Quiescent THEN store ELSE base
  /\ nOps' = nOps + 1
  /\ ev' = Event("ingestBegin", h, NoErr, "-", store)
  /\ UNCHANGED <<store, mutex, monitorVars, canceledOk, envVars>>

\* One iteration of the range loop of goroutine g, on the record under
\* oldHash as the map holds it now.
IngestIteration(g, oldHash) ==
  /\ mpc # "crashed"
  /\ handlers[g].pc = "scan"
  /\ oldHash \in handlers[g].remaining
  /\ LET it == Iteration(store, Transactions[handlers[g].h], oldHash,
                         handlers[g].isCancelingTx)
     IN
     /\ it.lock => mutex = "free"
     /\ store' = it.store
     /\ canceledOk' = canceledOk \cup NewlyCanceled(store, it.store)
     /\ handlers' =
          [handlers EXCEPT ![g] =
             CASE it.next = "continue" ->
                    [@ EXCEPT !.remaining = @ \ {oldHash},
                              !.isCancelingTx = it.isCancelingTx]
               [] it.next = "break" -> [@ EXCEPT !.remaining = {}]
               [] it.next = "write" -> [@ EXCEPT !.pc = "write", !.remaining = {}]
               [] it.next = "return" ->
                    [@ EXCEPT !.pc = "done", !.remaining = {}, !.err = it.err]]
     /\ ev' = Event("ingestIteration", handlers[g].h, it.err, "-", store)
  /\ UNCHANGED <<mutex, monitorVars, nOps, base, envVars>>

\* The loop is over: a cancelling transaction returns nil, any other goes on
\* to the assignment.
IngestLoopEnd(g) ==
  /\ mpc # "crashed"
  /\ handlers[g].pc = "scan"
  /\ handlers[g].remaining = {}
  /\ handlers' =
       [handlers EXCEPT ![g] =
          IF @.isCancelingTx THEN [@ EXCEPT !.pc = "done", !.err = NoErr]
          ELSE [@ EXCEPT !.pc = "write"]]
  /\ ev' = Event("ingestLoopEnd", handlers[g].h, NoErr, "-", store)
  /\ UNCHANGED <<store, mutex, monitorVars, canceledOk, nOps, base, envVars>>

\* tx.Status = STORED; storedTransactions[hash] = tx; return nil.  A range
\* in progress in another goroutine may or may not produce the new key.
IngestWrite(g) ==
  /\ mpc # "crashed"
  /\ handlers[g].pc = "write"
  /\ store' = MapAssign(store, handlers[g].h,
                        StoredRecord(Transactions[handlers[g].h]))
  /\ \E seen \in BOOLEAN :
       handlers' =
         [k \in Goroutines |->
            IF k = g THEN [handlers[g] EXCEPT !.pc = "done", !.err = NoErr]
            ELSE IF handlers[k].pc = "scan" /\ seen
                    /\ handlers[g].h \notin DOMAIN store
              THEN [handlers[k] EXCEPT !.remaining = @ \cup {handlers[g].h}]
              ELSE handlers[k]]
  /\ ev' = Event("ingestWrite", handlers[g].h, NoErr, "-", store)
  /\ UNCHANGED <<mutex, monitorVars, canceledOk, nOps, base, envVars>>

\* The map write of g runs at the same time as the range or the map write of
\* another goroutine: the runtime may detect it ("concurrent map iteration
\* and map write", "concurrent map writes"), which ends the process.
MapFault(g) ==
  /\ mpc # "crashed"
  /\ handlers[g].pc = "write"
  /\ \E k \in Goroutines \ {g} : handlers[k].pc \in {"scan", "write"}
  /\ mpc' = "crashed"
  /\ ev' = Event("mapFault", handlers[g].h, NoErr, "-", store)
  /\ UNCHANGED <<store, mutex, gasPrice, toVisit, cur, newStatus, canceledOk,
                 nOps, nTicks, tickSends, sentReplies, ctxDone, envVars,
                 stepVars>>

\* cancel_transaction: CancelTransaction(hash), the whole call.  It waits in
\* Lock while the mutex is held.
Cancel(h) ==
  /\ nOps < MaxOps
  /\ mpc # "crashed"
  /\ mutex = "free"
  /\ LET r == changeTransactionStatus(store, h, "CANCELED") IN
       /\ store' = r.store
       /\ ev' = [Event("cancel", h, r.err, "-", store) EXCEPT
                  !.resp = CancelTransactionResponse(r.err)]
       /\ canceledOk' = IF r.err = NoErr THEN canceledOk \cup {h} ELSE canceledOk
  /\ nOps' = nOps + 1
  /\ UNCHANGED <<mutex, monitorVars, envVars, stepVars>>

\* --------------------------------------------------------------- MonitorGas
\* Variant of Eligible that leaves out the comparison with the gas price.
Eligible_anyPrice(tx, price) == TRUE

\* tx.GasFeeCap().Int64() + tx.GasTipCap().Int64() >= int64(gasPrice)
Eligible(tx, price) == GasCap(tx) >= price

\* case <-ticker.C: the call of getGasPrice starts.
Tick ==
  /\ mpc = "wait"
  /\ nTicks < MaxTicks
  /\ mpc' = "gasPrice"
  /\ nTicks' = nTicks + 1
  /\ ev' = Event("tick", "-", NoErr, "-", store)
  /\ UNCHANGED <<store, mutex, gasPrice, toVisit, cur, newStatus, canceledOk,
                 nOps, tickSends, sentReplies, ctxDone, envVars, stepVars>>

\* case <-ticker.C without a bound on the number of ticks.
Ticker ==
  /\ mpc = "wait"
  /\ mpc' = "gasPrice"
  /\ ev' = Event("tick", "-", NoErr, "-", store)
  /\ UNCHANGED <<store, mutex, gasPrice, toVisit, cur, newStatus, canceledOk,
                 nOps, nTicks, tickSends, sentReplies, ctxDone, envVars, stepVars>>

\* cancel(): the context passed to MonitorGas is cancelled.  Calls in flight
\* and later calls of the upstream return an error from now on.
CtxCancel ==
  /\ ~ctxDone
  /\ ctxDone' = TRUE
  /\ ev' = Event("ctxCancel", "-", NoErr, "-", store)
  /\ UNCHANGED <<store, mutex, mpc, gasPrice, toVisit, cur, newStatus,
                 canceledOk, nOps, nTicks, tickSends, sentReplies, envVars, stepVars>>

\* case <-ctx.Done(): MonitorGas returns (the deferred ticker.Stop() runs).
MonitorReturn ==
  /\ mpc = "wait"
  /\ ctxDone
  /\ mpc' = "done"
  /\ ev' = Event("monitorReturn", "-", NoErr, "-", store)
  /\ UNCHANGED <<store, mutex, gasPrice, toVisit, cur, newStatus, canceledOk,
                 nOps, nTicks, tickSends, sentReplies, ctxDone, envVars, stepVars>>

\* The replies eth_gasPrice can get: the prices of the node and its other
\* replies; a request made with a cancelled context fails in the transport.
GasPriceReplies ==
  {reply \in upstream.gas \cup {PriceReply(p) : p \in prices} :
     ctxDone => reply.transport = "err"}

\* The replies a send can get.
SendRawReplies == {reply \in upstream.send : ctxDone => reply.transport = "err"}

\* getGasPrice panicked: nothing recovers a panic of the monitor goroutine,
\* the process exits.
GasPricePanic ==
  /\ mpc = "gasPrice"
  /\ \E reply \in GasPriceReplies :
       /\ getGasPrice(reply).kind = "panic"
       /\ ev' = [Event("gasPricePanic", "-", NoErr, "-", store) EXCEPT
                  !.reply = reply, !.ret = getGasPrice(reply)]
  /\ mpc' = "crashed"
  /\ UNCHANGED <<store, mutex, gasPrice, toVisit, cur, newStatus, canceledOk,
                 nOps, nTicks, tickSends, sentReplies, ctxDone, envVars, stepVars>>

\* Variant of GasPriceError that goes on to the range loop with the zero
\* gasPrice that was returned with the error.
GasPriceError_fallsThrough ==
  /\ mpc = "gasPrice"
  /\ \E reply \in GasPriceReplies :
       /\ getGasPrice(reply).kind = "err"
       /\ ev' = [Event("gasPriceError", "-", NoErr, "-", store) EXCEPT
                  !.reply = reply, !.ret = getGasPrice(reply)]
  /\ mpc' = "range"
  /\ gasPrice' = 0
  /\ toVisit' = DOMAIN store
  /\ UNCHANGED <<store, mutex, cur, newStatus, canceledOk,
                 nOps, nTicks, tickSends, sentReplies, ctxDone, envVars, stepVars>>

\* getGasPrice returned an error: log and continue with the next tick.
GasPriceError ==
  /\ mpc = "gasPrice"
  /\ \E reply \in GasPriceReplies :
       /\ getGasPrice(reply).kind = "err"
       /\ ev' = [Event("gasPriceError", "-", NoErr, "-", store) EXCEPT
                  !.reply = reply, !.ret = getGasPrice(reply)]
  /\ mpc' = "wait"
  /\ UNCHANGED <<store, mutex, gasPrice, toVisit, cur, newStatus, canceledOk,
                 nOps, nTicks, tickSends, sentReplies, ctxDone, envVars, stepVars>>

\* getGasPrice returned p: the range over the map starts.  A request made
\* with a cancelled context returns an error instead.
GasPriceReply(p) ==
  /\ mpc = "gasPrice"
  /\ p \in prices
  /\ ~ctxDone
  /\ \E reply \in GasPriceReplies :
       /\ getGasPrice(reply) = [kind |-> "ok", err |-> "nil", price |-> p]
       /\ ev' = [Event("gasPrice", "-", NoErr, "-", store) EXCEPT
                  !.reply = reply, !.ret = getGasPrice(reply)]
  /\ mpc' = "range"
  /\ gasPrice' = p
  /\ toVisit' = DOMAIN store
  /\ tickSends' = NoSends
  /\ UNCHANGED <<store, mutex, cur, newStatus, canceledOk, nOps, nTicks,
                 sentReplies, ctxDone, envVars, stepVars>>

\* One iteration of the range loop up to the Lock: the record is read without
\* the mutex; it is skipped unless STORED with caps >= gasPrice.
Visit(h) ==
  /\ mpc = "range"
  /\ h \in toVisit
  /\ toVisit' = toVisit \ {h}
  /\ LET tx == Transactions[store[h].hash] IN
     IF store[h].status # "STORED" \/ ~Eligible(tx, gasPrice)
       THEN /\ ev' = Event("skip", h, NoErr, store[h].status, store)
            /\ UNCHANGED <<mpc, cur>>
       ELSE /\ ev' = Event("eligible", h, NoErr, store[h].status, store)
            /\ mpc' = "lock"
            /\ cur' = h
  /\ UNCHANGED <<store, mutex, gasPrice, newStatus, canceledOk, nOps, nTicks,
                 tickSends, sentReplies, ctxDone, envVars, stepVars>>

\* The range loop is over: back to the select.
RangeEnd ==
  /\ mpc = "range"
  /\ toVisit = {}
  /\ mpc' = "wait"
  /\ gasPrice' = 0
  /\ cur' = "-"
  /\ newStatus' = "-"
  /\ tickSends' = NoSends
  /\ ev' = Event("rangeEnd", "-", NoErr, "-", store)
  /\ UNCHANGED <<store, mutex, toVisit, canceledOk, nOps, nTicks, sentReplies,
                 ctxDone, envVars, stepVars>>

\* transactionsMutex.Lock() succeeds and sendTransaction(ctx, tx.RawHex) is
\* called; the event keeps the status the record has in the store right now.
LockAndSend ==
  /\ mpc = "lock"
  /\ mutex = "free"
  /\ mutex' = "monitor"
  /\ mpc' = "send"
  /\ tickSends' = MapAssign(tickSends, cur,
                            [status |-> store[cur].status, reply |-> "-"])
  /\ ev' = Event("send", cur, NoErr, store[cur].status, store)
  /\ UNCHANGED <<store, gasPrice, toVisit, cur, newStatus, canceledOk, nOps,
                 nTicks, sentReplies, ctxDone, envVars, stepVars>>

\* The reply of the send in flight, as the history variables keep it.
LogReply(reply) ==
  /\ tickSends' = [tickSends EXCEPT ![cur].reply = reply]
  /\ sentReplies' = sentReplies \cup {<<cur, reply>>}

\* sendTransaction returned (false, nil): Unlock, then BROADCASTED.
SendOk ==
  /\ mpc = "send"
  /\ mutex' = "free"
  /\ mpc' = "change"
  /\ newStatus' = "BROADCASTED"
  /\ LogReply("ok")
  /\ \E reply \in SendRawReplies :
       /\ sendTransaction(reply).err = "nil"
       /\ ev' = [Event("sendOk", cur, NoErr, "-", store) EXCEPT
                  !.reply = reply, !.ret = sendTransaction(reply)]
  /\ UNCHANGED <<store, gasPrice, toVisit, cur, canceledOk, nOps, nTicks, ctxDone, envVars, stepVars>>

\* sendTransaction returned (true, err): Unlock, then FAILED.
SendRPCError ==
  /\ mpc = "send"
  /\ mutex' = "free"
  /\ mpc' = "change"
  /\ newStatus' = "FAILED"
  /\ LogReply("rpc")
  /\ \E reply \in SendRawReplies :
       /\ sendTransaction(reply).err # "nil" /\ sendTransaction(reply).rpcError
       /\ ev' = [Event("sendRPCError", cur, NoErr, "-", store) EXCEPT
                  !.reply = reply, !.ret = sendTransaction(reply)]
  /\ UNCHANGED <<store, gasPrice, toVisit, cur, canceledOk, nOps, nTicks, ctxDone, envVars, stepVars>>

\* Variant of SendNetError that treats every error of the send as a rejection
\* by the node.
SendNetError_asRPCError ==
  /\ mpc = "send"
  /\ mutex' = "free"
  /\ mpc' = "change"
  /\ newStatus' = "FAILED"
  /\ LogReply("net")
  /\ \E reply \in SendRawReplies :
       /\ sendTransaction(reply).err # "nil" /\ ~sendTransaction(reply).rpcError
       /\ ev' = [Event("sendNetError", cur, NoErr, "-", store) EXCEPT
                  !.reply = reply, !.ret = sendTransaction(reply)]
  /\ UNCHANGED <<store, gasPrice, toVisit, cur, canceledOk, nOps, nTicks, ctxDone, envVars, stepVars>>

\* sendTransaction returned (false, err): the error is logged and the loop
\* goes on; no branch unlocks the mutex.
SendNetError ==
  /\ mpc = "send"
  /\ mpc' = "range"
  /\ LogReply("net")
  /\ \E reply \in SendRawReplies :
       /\ sendTransaction(reply).err # "nil" /\ ~sendTransaction(reply).rpcError
       /\ ev' = [Event("sendNetError", cur, NoErr, "-", store) EXCEPT
                  !.reply = reply, !.ret = sendTransaction(reply)]
  /\ UNCHANGED <<store, mutex, gasPrice, toVisit, cur, newStatus, canceledOk,
                 nOps, nTicks, ctxDone, envVars, stepVars>>

\* changeTransactionStatus(hash, FAILED | BROADCASTED) after the Unlock; an
\* error is logged only.
MonitorChange ==
  /\ mpc = "change"
  /\ mutex = "free"
  /\ LET r == changeTransactionStatus(store, cur, newStatus) IN
       /\ store' = r.store
       /\ ev' = Event("change", cur, r.err, newStatus, store)
  /\ mpc' = "range"
  /\ UNCHANGED <<mutex, gasPrice, toVisit, cur, newStatus, canceledOk, nOps,
                 nTicks, tickSends, sentReplies, ctxDone, envVars, stepVars>>

Next ==
  \/ \E h \in Hashes : Ingest(h)
  \/ \E h \in wallet \cup {UnknownHash} : Cancel(h)
  \/ Tick
  \/ GasPriceError
  \/ \E p \in Prices \cup LowPrices : GasPriceReply(p)
  \/ \E h \in Hashes : Visit(h)
  \/ RangeEnd
  \/ LockAndSend
  \/ SendOk
  \/ SendRPCError
  \/ SendNetError
  \/ MonitorChange

Spec == Init /\ [][Next]_vars

\* The same program in a cheap period.
SpecLowPrice == InitLowPrice /\ [][Next]_vars

\* The same program with the transactions of ReplaceWallet.
SpecReplace == InitReplace /\ [][Next]_vars

\* The same program with the transactions of LargeWallet.
SpecLargeCaps == InitLargeCaps /\ [][Next]_vars

\* The program with a ticker that never stops and a cancellable context.
NextLive ==
  \/ \E h \in Hashes : Ingest(h)
  \/ \E h \in wallet \cup {UnknownHash} : Cancel(h)
  \/ Ticker
  \/ CtxCancel
  \/ MonitorReturn
  \/ GasPriceError
  \/ \E p \in Prices \cup LowPrices : GasPriceReply(p)
  \/ \E h \in Hashes : Visit(h)
  \/ RangeEnd
  \/ LockAndSend
  \/ SendOk
  \/ SendRPCError
  \/ SendNetError
  \/ MonitorChange

\* What the runtime guarantees: the ticker keeps firing, every upstream call
\* returns (the HTTP client has a timeout), the monitor goroutine is scheduled
\* and gets a free mutex, and the select takes ctx.Done() when it is ready.
Scheduling ==
  /\ WF_vars(Ticker)
  /\ WF_vars(GasPriceError \/ \E p \in Prices \cup LowPrices : GasPriceReply(p))
  /\ WF_vars(\E h \in Hashes : Visit(h))
  /\ WF_vars(RangeEnd)
  /\ WF_vars(LockAndSend)
  /\ WF_vars(SendOk \/ SendRPCError \/ SendNetError)
  /\ WF_vars(MonitorChange)
  /\ SF_vars(MonitorReturn)

\* An upstream node that recovers: the gas price query succeeds again and
\* again, and so does the send of every transaction that keeps being sent.
UpstreamRecovers ==
  /\ SF_vars(\E p \in Prices \cup LowPrices : GasPriceReply(p))
  /\ \A h \in LiveWallet : SF_vars(SendOk /\ cur = h)

\* The program with a node that gives every kind of reply.
NextUpstream ==
  \/ \E h \in Hashes : Ingest(h)
  \/ \E h \in wallet \cup {UnknownHash} : Cancel(h)
  \/ Tick
  \/ GasPriceError
  \/ GasPricePanic
  \/ \E p \in Prices \cup LowPrices : GasPriceReply(p)
  \/ \E h \in Hashes : Visit(h)
  \/ RangeEnd
  \/ LockAndSend
  \/ SendOk
  \/ SendRPCError
  \/ SendNetError
  \/ MonitorChange

\* The handlers of eth_sendRawTransaction, running next to each other.
NextConcurrent ==
  \/ \E g \in Goroutines, h \in Hashes : IngestBegin(g, h)
  \/ \E g \in Goroutines, h \in Hashes : IngestIteration(g, h)
  \/ \E g \in Goroutines : IngestLoopEnd(g)
  \/ \E g \in Goroutines : IngestWrite(g)
  \/ \E g \in Goroutines : MapFault(g)

SpecConcurrent == InitConcurrent /\ [][NextConcurrent]_vars

SpecUpstream == InitUpstream /\ [][NextUpstream]_vars

LiveSpec == InitLive /\ [][NextLive]_vars /\ Scheduling /\ UpstreamRecovers

\* ---------------------------------------------------------------- typing
TypeOK ==
  /\ DOMAIN store \subseteq Hashes
  /\ \A h \in DOMAIN store : store[h].status \in Statuses /\ store[h].hash = h
  /\ mutex \in {"free", "monitor"}
  /\ mpc \in {"wait", "gasPrice", "range", "lock", "send", "change", "done",
             "crashed"}
  /\ toVisit \subseteq DOMAIN store
  /\ nOps \in 0..MaxOps
  /\ nTicks \in 0..MaxTicks
  /\ \A g \in Goroutines :
       /\ handlers[g].pc \in {"idle", "scan", "write", "done"}
       /\ handlers[g].remaining \subseteq DOMAIN store
  /\ DOMAIN base \subseteq DOMAIN store

\* ================================================================== claims
\* The adjacency table of the status state machine, as pairs <<from, to>>.
AdjacencyTable ==
  { <<"STORED", "CANCELED">>, <<"STORED", "SPEDUP">>, <<"STORED", "FAILED">>,
    <<"STORED", "BROADCASTED">>, <<"CANCELED", "SPEDUP">> }

\* The transaction the last ingest submitted.
EvTx == Transactions[ev.h]

\* The address a transaction was signed by, under its own chain id.
SenderOf(tx) == Sender(tx.chainId, tx)

\* tx has the shape of a wallet's cancel: zero-value self-send without data.
CancelShaped(tx) == tx.to = SenderOf(tx) /\ tx.value = 0 /\ Len(tx.data) = 0

\* Records of st that ingest compares with tx: not SPEDUP, same sender and
\* nonce.
SameSenderNonce(st, tx) ==
  { h \in DOMAIN st :
      /\ st[h].status # "SPEDUP"
      /\ SenderOf(Transactions[h]) = SenderOf(tx)
      /\ Transactions[h].nonce = tx.nonce }

\* C1: ingest of a transaction whose hash is already a key of the store fails
\* with Duplicate carrying the existing record's status and leaves the store
\* unchanged, for every visiting order of the scan.
C1_DuplicateRejected ==
  (ev.op = "ingest" /\ ev.h \in DOMAIN ev.pre)
    => (ev.err = ErrAlready(ev.pre[ev.h].status) /\ store = ev.pre)

\* C2: every change of a stored record's status is a pair of the adjacency
\* table; in particular no record returns to STORED and a record in SPEDUP,
\* FAILED or BROADCASTED never changes again.
C2_TransitionsInTable ==
  [][ \A h \in DOMAIN store :
        store'[h].status # store[h].status
          => <<store[h].status, store'[h].status>> \in AdjacencyTable ]_vars

\* C3: once the cancellation of h was reported as a success, the raw
\* transaction of h is never sent to the upstream node.
C3_NoSendAfterCancel ==
  ev.op = "send" => ev.h \notin canceledOk

\* C4: whenever the monitor invokes send_raw for h, the status of h in the
\* store at that moment is STORED.
C4_SendOnlyStored ==
  ev.op = "send" => ev.status = "STORED"

\* C5: the store never contains two distinct STORED records with the same
\* sender and the same nonce.
C5_NoTwoStoredSameSenderNonce ==
  \A h1, h2 \in DOMAIN store :
    (h1 # h2 /\ store[h1].status = "STORED" /\ store[h2].status = "STORED")
      => ~( /\ SenderOf(Transactions[h1]) = SenderOf(Transactions[h2])
            /\ Transactions[h1].nonce = Transactions[h2].nonce )

\* The STORED records of st with the sender and nonce of tx and strictly
\* lower caps.
CancelTargets(st, tx) ==
  { h \in SameSenderNonce(st, tx) :
      st[h].status = "STORED" /\ GasCap(Transactions[h]) < GasCap(tx) }

\* C6: cancel pattern.  A cancel-shaped tx that is not in the store, ingested
\* while a STORED record with its sender and nonce and strictly lower caps
\* exists: success, exactly one such record becomes CANCELED, tx is not
\* inserted, the store size is unchanged.
C6_CancelPattern ==
  ( /\ ev.op = "ingest"
    /\ ev.h \notin DOMAIN ev.pre
    /\ CancelShaped(EvTx)
    /\ CancelTargets(ev.pre, EvTx) # {} )
  => ( /\ ev.err = NoErr
       /\ ev.h \notin DOMAIN store
       /\ Cardinality(DOMAIN store) = Cardinality(DOMAIN ev.pre)
       /\ \E h \in CancelTargets(ev.pre, EvTx) :
            store = [ev.pre EXCEPT ![h].status = "CANCELED"] )

\* C6 witness: a cancel-shaped ingest that had two candidates and cancelled
\* one of them.
C6_Witness ==
  /\ ev.op = "ingest"
  /\ ev.h \notin DOMAIN ev.pre
  /\ CancelShaped(EvTx)
  /\ Cardinality(CancelTargets(ev.pre, EvTx)) >= 2
  /\ ev.err = NoErr
  /\ \E h \in DOMAIN store : ev.pre[h].status = "STORED" /\ store[h].status = "CANCELED"

\* old is the only compared record and tx re-issues it with higher caps.
SpeedUpOf(st, tx, old) ==
  /\ SameSenderNonce(st, tx) = {old}
  /\ st[old].status = "STORED"
  /\ tx.to = Transactions[old].to
  /\ tx.value = Transactions[old].value
  /\ tx.data = Transactions[old].data
  /\ GasCap(tx) > GasCap(Transactions[old])

\* C7: speed-up pattern.  A tx that is not in the store and not cancel-shaped,
\* whose only compared record old is STORED with the same to, value and data
\* and strictly lower caps: success, old becomes SPEDUP, tx is inserted under
\* its hash as STORED.
C7_SpeedUpPattern ==
  \A old \in DOMAIN ev.pre :
    ( /\ ev.op = "ingest"
      /\ ev.h \notin DOMAIN ev.pre
      /\ ~CancelShaped(EvTx)
      /\ SpeedUpOf(ev.pre, EvTx, old) )
    => ( /\ ev.err = NoErr
         /\ DOMAIN store = (DOMAIN ev.pre) \cup {ev.h}
         /\ store[old].status = "SPEDUP"
         /\ store[ev.h] = [hash |-> ev.h, status |-> "STORED"]
         /\ \A h \in (DOMAIN ev.pre) \ {old} : store[h] = ev.pre[h] )

\* C7 witness: a speed-up happened while another record was in the store.
C7_Witness ==
  /\ ev.op = "ingest"
  /\ ev.h \notin DOMAIN ev.pre
  /\ ~CancelShaped(EvTx)
  /\ \E old \in DOMAIN ev.pre :
       SpeedUpOf(ev.pre, EvTx, old) /\ store[old].status = "SPEDUP"
  /\ ev.h \in DOMAIN store
  /\ Cardinality(DOMAIN store) >= 3

\* No compared record of st satisfies the cancel or the speed-up pattern
\* with tx.
NoPatternMatch(st, tx) ==
  \A h \in SameSenderNonce(st, tx) :
    \/ GasCap(Transactions[h]) >= GasCap(tx)
    \/ /\ ~CancelShaped(tx)
       /\ \/ tx.to # Transactions[h].to
          \/ tx.value # Transactions[h].value
          \/ tx.data # Transactions[h].data

\* C8: a tx that is not in the store and matches no compared record (none
\* shares sender and nonce, or those that do have caps >= the new caps or
\* differ in to, value or data) is inserted as STORED; the call succeeds and
\* no existing record changes.
C8_FreshInsert ==
  ( /\ ev.op = "ingest"
    /\ ev.h \notin DOMAIN ev.pre
    /\ NoPatternMatch(ev.pre, EvTx) )
  => ( /\ ev.err = NoErr
       /\ DOMAIN store = (DOMAIN ev.pre) \cup {ev.h}
       /\ store[ev.h] = [hash |-> ev.h, status |-> "STORED"]
       /\ \A h \in DOMAIN ev.pre : store[h] = ev.pre[h] )

\* C8 witness: the boundary of equal caps: tx re-issues a STORED record with
\* exactly its caps and is stored as a fresh record.
C8_Witness ==
  /\ ev.op = "ingest"
  /\ ev.h \notin DOMAIN ev.pre
  /\ \E h \in SameSenderNonce(ev.pre, EvTx) :
       /\ ev.pre[h].status = "STORED"
       /\ GasCap(Transactions[h]) = GasCap(EvTx)
       /\ EvTx.to = Transactions[h].to
       /\ EvTx.value = Transactions[h].value
       /\ EvTx.data = Transactions[h].data
  /\ NoPatternMatch(ev.pre, EvTx)
  /\ ev.h \in DOMAIN store /\ store[ev.h].status = "STORED"

\* What change_status(h, s) has to do on the store st.
ChangeStatusContract(st, h, s, r) ==
  /\ h \notin DOMAIN st => (r.err = ErrNotFound /\ r.store = st)
  /\ (h \in DOMAIN st /\ <<st[h].status, s>> \notin AdjacencyTable)
       => (r.err = ErrInvalidTransition /\ r.store = st)
  /\ (h \in DOMAIN st /\ <<st[h].status, s>> \in AdjacencyTable)
       => /\ r.err = NoErr
          /\ DOMAIN r.store = DOMAIN st
          /\ r.store[h] = [hash |-> st[h].hash, status |-> s]
          /\ \A k \in (DOMAIN st) \ {h} : r.store[k] = st[k]

\* C9: change_status(hash, s) fails with "transaction not found" for an
\* unknown hash and with "invalid status transition" for a pair outside the
\* table, leaving every record unchanged; for a pair of the table the record's
\* status becomes s and nothing else changes.  Stated for every hash and
\* status on every reachable store, and for the calls cancel and the monitor
\* actually made.
C9_ChangeStatusContract ==
  /\ \A h \in Hashes \cup {UnknownHash}, s \in Statuses :
       ChangeStatusContract(store, h, s, changeTransactionStatus(store, h, s))
  /\ ev.op = "cancel"
       => ChangeStatusContract(ev.pre, ev.h, "CANCELED",
                               [store |-> store, err |-> ev.err])
  /\ ev.op = "change"
       => ChangeStatusContract(ev.pre, ev.h, ev.status,
                               [store |-> store, err |-> ev.err])

\* C9 witness: the monitor's status write was rejected as an invalid
\* transition and left the store as it was.
C9_Witness ==
  /\ ev.op = "change"
  /\ ev.err = ErrInvalidTransition
  /\ store = ev.pre
  /\ \E h \in Hashes : h \notin DOMAIN store

\* C10: cancel(h) on a STORED record succeeds and sets it to CANCELED; a
\* second cancel(h) directly after it returns InvalidTransition and the
\* record stays CANCELED.
C10_CancelTwice ==
  [][ /\ (ev'.op = "cancel" /\ ev'.h \in DOMAIN store /\ store[ev'.h].status = "STORED")
        => (ev'.err = NoErr /\ store' = [store EXCEPT ![ev'.h].status = "CANCELED"])
      /\ (ev.op = "cancel" /\ ev.err = NoErr /\ ev'.op = "cancel" /\ ev'.h = ev.h)
        => (ev'.err = ErrInvalidTransition /\ store' = store
            /\ store'[ev.h].status = "CANCELED") ]_vars

\* C10 witness: a cancel of a record that an earlier cancel had set to
\* CANCELED was rejected.
C10_Witness ==
  /\ ev.op = "cancel"
  /\ ev.h \in canceledOk
  /\ ev.err = ErrInvalidTransition
  /\ ev.pre[ev.h].status = "CANCELED"
  /\ store[ev.h].status = "CANCELED"

\* The steps of the monitor, by the name the event keeps.
MonitorOps ==
  {"tick", "gasPriceError", "gasPrice", "skip", "eligible", "rangeEnd", "send",
   "sendOk", "sendRPCError", "sendNetError", "change"}

\* C11: an operation of the core (ingest, cancel, change_status) that returns
\* an error leaves the store exactly as it was on entry.
C11_ErrorsLeaveStore ==
  (ev.op \in {"ingest", "cancel", "change"} /\ ev.err # NoErr) => store = ev.pre

\* C11 witness: an ingest that matched the speed-up pattern against a record
\* that cannot become SPEDUP returned the invalid-transition error.
C11_Witness ==
  /\ ev.op = "ingest"
  /\ ev.err = ErrInvalidTransition
  /\ ev.h \notin DOMAIN store
  /\ store = ev.pre
  /\ \E h \in DOMAIN store : store[h].status \in {"BROADCASTED", "FAILED"}

\* C12: ingest of a transaction whose sender cannot be recovered aborts with
\* an error and does not mutate the store.
C12_UnrecoverableSenderRejected ==
  (ev.op = "ingest" /\ SenderOf(EvTx) = "err")
    => (ev.err # NoErr /\ store = ev.pre)

\* C13: every record the monitor found STORED with caps >= the gas price of
\* the tick has been sent when the tick ends, and when its send returned
\* (false, nil) its status is BROADCASTED at the end of the tick.
C13_BroadcastedAtEndOfTick ==
  [][ (mpc = "range" /\ mpc' = "wait")
        => \A h \in DOMAIN tickSends :
             (tickSends[h].status = "STORED" /\ tickSends[h].reply = "ok")
               => store'[h].status = "BROADCASTED" ]_vars

\* C14: the monitor never sends a record whose caps are strictly below the gas
\* price of the tick, and no step of the monitor changes such a record.
C14_NoSendBelowPrice ==
  /\ \A h \in DOMAIN tickSends : GasCap(Transactions[h]) >= gasPrice
  /\ ev.op \in {"send", "change"} => GasCap(Transactions[ev.h]) >= gasPrice
  /\ ev.op \in MonitorOps
       => \A h \in DOMAIN ev.pre :
            GasCap(Transactions[h]) < gasPrice => store[h] = ev.pre[h]

\* C14 witness: in a tick that sent another record, a STORED record with caps
\* below the gas price was skipped and is still STORED.
C14_Witness ==
  /\ ev.op = "skip"
  /\ ev.status = "STORED"
  /\ GasCap(Transactions[ev.h]) < gasPrice
  /\ store[ev.h].status = "STORED"
  /\ tickSends # NoSends

\* C15: when the send of a STORED record returns (true, err) the monitor moves
\* that record to FAILED in the same tick, and a record whose send was
\* rejected is never sent again.
C15_RPCErrorFails ==
  /\ (ev.op = "change" /\ ev.status = "FAILED" /\ tickSends[ev.h].status = "STORED")
       => (ev.err = NoErr /\ store[ev.h].status = "FAILED")
  /\ ev.op = "send" => <<ev.h, "rpc">> \notin sentReplies

\* C16: when the send of a STORED record returns (false, err) the attempt
\* changes no record: the status stays STORED, the loop goes on without a
\* status write, and the monitor writes a status only after a reply
\* (false, nil) or (true, err).
C16_NetErrorLeavesStored ==
  /\ ev.op = "sendNetError"
       => /\ store = ev.pre
          /\ mpc = "range"
          /\ tickSends[ev.h].status = "STORED" => store[ev.h].status = "STORED"
  /\ ev.op = "change" => tickSends[ev.h].reply \in {"ok", "rpc"}

\* C16 witness: the send of a STORED record failed at the network layer and
\* the record is still STORED.
C16_Witness ==
  /\ ev.op = "sendNetError"
  /\ tickSends[ev.h] = [status |-> "STORED", reply |-> "net"]
  /\ store[ev.h].status = "STORED"

\* C17: a record whose broadcast failed with a network-layer error is sent
\* again on a later tick and, with an upstream that recovers and caps that
\* stay >= the gas price, does not stay STORED (it is BROADCASTED unless a
\* handler replaced or cancelled it, or the monitor was told to stop).
C17_RetriedAfterNetError ==
  \A h \in Hashes :
    (h \in DOMAIN store /\ store[h].status = "STORED" /\ <<h, "net">> \in sentReplies)
      ~> ((h \in DOMAIN store /\ store[h].status # "STORED") \/ ctxDone)

\* C18: the store mutex is always released again, so no handler waits for it
\* forever.
C18_MutexReleased ==
  (mutex = "monitor") ~> (mutex = "free")

\* C19: after the context is cancelled the monitor task terminates.
C19_MonitorTerminates ==
  ctxDone ~> (mpc = "done")

C21_SendRawResponse ==
  ev.op = "ingest" =>
    /\ ev.err = NoErr
         => ev.resp = [result |-> ev.h, code |-> 0, message |-> <<>>]
    /\ \A status \in Statuses :
         ev.err = ErrAlready(status)
           => ev.resp = [result |-> "-", code |-> -32000,
                         message |-> <<"already", status>>]

\* C21 witness: a cancel transaction cancelled a record, was not stored, and
\* its hash is the result of the response.
C21_Witness ==
  /\ ev.op = "ingest"
  /\ ev.err = NoErr
  /\ ev.h \notin DOMAIN store
  /\ NewlyCanceled(ev.pre, store) # {}
  /\ ev.resp.result = ev.h

\* C22: cancel_transaction answers "Transaction canceled" exactly when the
\* record was STORED and is now CANCELED, -32000 "transaction not found" for
\* a hash that is not in the store, and -32000 with the invalid-transition
\* message, the record unchanged, for a record in any other status.
C22_CancelResponse ==
  ev.op = "cancel" =>
    /\ ev.resp.result = "Transaction canceled"
         <=> /\ ev.h \in DOMAIN ev.pre
             /\ ev.pre[ev.h].status = "STORED"
             /\ store[ev.h].status = "CANCELED"
    /\ ev.h \notin DOMAIN ev.pre
         => ev.resp = [result |-> "-", code |-> -32000,
                       message |-> <<"transaction not found">>]
    /\ (ev.h \in DOMAIN ev.pre /\ ev.pre[ev.h].status # "STORED")
         => /\ ev.resp = [result |-> "-", code |-> -32000,
                          message |-> <<"invalid status transition">>]
            /\ store = ev.pre

\* C22 witness: cancel_transaction of a BROADCASTED record was answered with
\* the invalid-transition error.
C22_Witness ==
  /\ ev.op = "cancel"
  /\ ev.h \in DOMAIN ev.pre
  /\ ev.pre[ev.h].status = "BROADCASTED"
  /\ ev.resp.code = -32000
  /\ store[ev.h].status = "BROADCASTED"

\* C23: the store mutex is never held while a get_gas_price or a send_raw
\* call is in flight.
C23_NoMutexAcrossUpstream ==
  mpc \in {"gasPrice", "send"} => mutex = "free"

\* Records of st whose value differs in st2 (or that st2 lacks).
Changed(st, st2) ==
  {h \in DOMAIN st : h \notin DOMAIN st2 \/ st2[h] # st[h]}

\* C26: an ingest call adds at most one key, the hash of the submitted
\* transaction, and changes at most one existing record.
C26_IngestFrame ==
  ev.op = "ingest" =>
    /\ (DOMAIN store) \ (DOMAIN ev.pre) \subseteq {ev.h}
    /\ Cardinality(Changed(ev.pre, store)) <= 1

\* C27: a tick whose gas price query fails sends nothing and changes no
\* record, and the monitor keeps running: it queries the gas price again on
\* the next tick (or returns, when its context was cancelled).
C27_GasPriceFailureSkipsTick ==
  /\ [](ev.op = "gasPriceError"
          => /\ store = ev.pre
             /\ mpc = "wait"
             /\ tickSends = NoSends
             /\ ev.ret.kind = "err")
  /\ (ev.op = "gasPriceError") ~> (mpc \in {"gasPrice", "done"})

\* C27 witness: the gas price query failed while an eligible STORED record
\* was in the store, and the record is untouched.
C27_Witness ==
  /\ ev.op = "gasPriceError"
  /\ mpc = "wait"
  /\ ~ctxDone
  /\ \E h \in DOMAIN store :
       store[h].status = "STORED" /\ \A p \in prices : Eligible(Transactions[h], p)

\* The reply is an HTTP 200 with a body that decodes.
Decoded(reply) ==
  reply.transport = "ok" /\ reply.http = 200 /\ reply.body = "json"

\* C28: send_raw returns (false, nil) iff the node replied 200 with a
\* decodable body without error object, (true, err) with the node's message
\* iff such a body carries an error object, (false, err) iff the transport
\* failed, the status was not 200 or the body did not decode; never (true, nil).
C28_SendRawResult ==
  ev.op \in {"sendOk", "sendRPCError", "sendNetError"} =>
    /\ ev.ret = [rpcError |-> FALSE, err |-> "nil"]
         <=> (Decoded(ev.reply) /\ ev.reply.error = "-")
    /\ (ev.ret.rpcError /\ ev.ret.err # "nil")
         <=> (Decoded(ev.reply) /\ ev.reply.error # "-")
    /\ ev.ret.rpcError => ev.ret.err = ev.reply.error
    /\ (~ev.ret.rpcError /\ ev.ret.err # "nil") <=> ~Decoded(ev.reply)
    /\ ~(ev.ret.rpcError /\ ev.ret.err = "nil")
    /\ ev.op = "sendOk" <=> ev.ret.err = "nil"
    /\ ev.op = "sendRPCError" <=> ev.ret.rpcError

\* C28 witness: a reply with a status other than 200 whose body carries an
\* error object was returned as (false, err).
C28_Witness ==
  /\ ev.op = "sendNetError"
  /\ ev.reply = HttpErrorWithErrorObject
  /\ ev.ret.rpcError = FALSE
  /\ ev.ret.err # "nil"

\* C29: get_gas_price returns an error value for every bad reply of the node,
\* and the monitor is still running afterwards.
C29_GasPriceErrorValue ==
  /\ mpc # "crashed"
  /\ (ev.op \in {"gasPriceError", "gasPricePanic"} /\ ev.reply \in AllGasReplies)
       => (ev.ret.kind = "err" /\ mpc = "wait")

\* The records of st that are not SPEDUP.
Live(st) ==
  [h \in {k \in DOMAIN st : st[k].status # "SPEDUP"} |-> st[h]]

\* st2 with the SPEDUP records of st put back.
WithSuperseded(st, st2) ==
  [h \in (DOMAIN st2) \cup (DOMAIN st) |->
     IF h \in DOMAIN st /\ st[h].status = "SPEDUP" THEN st[h] ELSE st2[h]]

Serializable ==
  \E g1 \in Goroutines :
    LET g2 == CHOOSE k \in Goroutines : k # g1 IN
    \E o1 \in StoreTransaction(base, Transactions[handlers[g1].h], TRUE) :
      /\ o1.err = handlers[g1].err
      /\ \E o2 \in StoreTransaction(o1.store, Transactions[handlers[g2].h], TRUE) :
           /\ o2.err = handlers[g2].err
           /\ o2.store = store

\* C24: ingest is atomic: two ingest calls that run concurrently have the
\* results and the final store of some serial order of the two.
C24_IngestAtomic ==
  (\A g \in Goroutines : handlers[g].pc = "done") => Serializable

\* C25: every read and write of the map happens while the acting task holds
\* the mutex; in no state does one task write the map while another reads or
\* writes it.
C25_MapUnderMutex ==
  /\ \A g \in Goroutines :
       handlers[g].pc \in {"scan", "write"} => mutex = HandlerName[g]
  /\ ~ \E g, k \in Goroutines :
         g # k /\ handlers[g].pc = "write" /\ handlers[k].pc \in {"scan", "write"}

\* ---------------------------------------------------------------- C31..C38

\* The records of st that are CANCELED and that tx repeats with strictly
\* higher caps: same sender, nonce, recipient, value and data.
CanceledPredecessors(st, tx) ==
  { h \in SameSenderNonce(st, tx) :
      /\ st[h].status = "CANCELED"
      /\ Transactions[h].to = tx.to
      /\ Transactions[h].value = tx.value
      /\ Transactions[h].data = tx.data
      /\ GasCap(tx) > GasCap(Transactions[h]) }

CancelMatches(st, tx) ==
  { h \in SameSenderNonce(st, tx) : GasCap(tx) > GasCap(Transactions[h]) }

\* C32: when a new cancel-shaped transaction matches a record that cannot
\* become CANCELED (it is CANCELED, FAILED or BROADCASTED), ingest goes on
\* scanning: it returns success and does not insert the transaction; if a
\* STORED match exists one of them becomes CANCELED and nothing else changes,
\* and if none exists the store is unchanged.
C32_CancelScansOn ==
  LET matches == CancelMatches(ev.pre, EvTx)
      stored == { h \in matches : ev.pre[h].status = "STORED" }
  IN
  (/\ ev.op = "ingest"
   /\ ev.h \notin DOMAIN ev.pre
   /\ EvTx.sigOk
   /\ CancelShaped(EvTx)
   /\ \E h \in matches : ev.pre[h].status \in {"CANCELED", "FAILED", "BROADCASTED"})
  =>
    /\ ev.err = NoErr
    /\ ev.h \notin DOMAIN store
    /\ IF stored = {}
         THEN store = ev.pre
         ELSE \E h \in stored :
                store = [ev.pre EXCEPT ![h].status = "CANCELED"]

\* C32 witness: a cancel met only a BROADCASTED record and was dropped.
C32_Witness ==
  /\ ev.op = "ingest"
  /\ ev.h \notin DOMAIN ev.pre
  /\ CancelShaped(EvTx)
  /\ \E h \in CancelMatches(ev.pre, EvTx) : ev.pre[h].status = "BROADCASTED"
  /\ \A h \in CancelMatches(ev.pre, EvTx) : ev.pre[h].status # "STORED"
  /\ ev.err = NoErr
  /\ store = ev.pre

\* The FAILED or BROADCASTED records of st that tx satisfies the speed-up
\* pattern against, while no other compared record matches a pattern.
RefusedPredecessors(st, tx) ==
  { h \in SameSenderNonce(st, tx) :
      /\ st[h].status \in {"FAILED", "BROADCASTED"}
      /\ SpeedUpPattern(tx, Transactions[h])
      /\ \A k \in SameSenderNonce(st, tx) \ {h} :
           /\ ~SpeedUpPattern(tx, Transactions[k])
           /\ ~CancelPattern(SenderOf(tx), tx, Transactions[k]) }

C35_OrderIndependent ==
  \A h \in wallet :
    Cardinality(StoreTransaction(store, Transactions[h], TRUE)) <= 1

\* C36: a record is broadcast successfully at most once: the monitor never
\* sends a hash whose earlier send returned (false, nil).
C36_BroadcastOnce ==
  (ev.op = "send") => <<ev.h, "ok">> \notin sentReplies

\* C37: ingest returns success or an error value, never aborts, also for a
\* transaction without recipient and for one compared with a stored record
\* without recipient; and a handler that did abort answers -32000 "server
\* error", with the store unchanged and the mutex not left held by the
\* handler.
C37_NoAbort ==
  (ev.op = "ingest") =>
    /\ ev.err # ErrPanic
    /\ (ev.err = ErrPanic =>
          /\ ev.resp = writeJSONRPCError(-32000, <<"server error">>)
          /\ store = ev.pre
          /\ mutex \in {"free", "monitor"})

\* The exact sum of the caps a transaction carries.
ExactCap(tx) == tx.gasFeeCap + tx.gasTipCap

\* C38: the tests on the caps decide by the exact sums fee cap + tip cap.
\* The monitor finds a STORED record eligible exactly when its exact cap is
\* at least the gas price; and a new payment that repeats the only record of
\* its sender and nonce, a STORED one, marks it SPEDUP exactly when its exact
\* cap is strictly higher.
C38_ExactCaps ==
  /\ (ev.op \in {"skip", "eligible"} /\ ev.status = "STORED") =>
       (ev.op = "eligible" <=> ExactCap(EvTx) >= gasPrice)
  /\ (/\ ev.op = "ingest"
      /\ ev.h \notin DOMAIN ev.pre
      /\ EvTx.to # NilAddr
      /\ ~CancelShaped(EvTx)) =>
       \A h \in SameSenderNonce(ev.pre, EvTx) :
         (/\ SameSenderNonce(ev.pre, EvTx) = {h}
          /\ ev.pre[h].status = "STORED"
          /\ Transactions[h].to = EvTx.to
          /\ Transactions[h].value = EvTx.value
          /\ Transactions[h].data = EvTx.data) =>
           (store[h].status = "SPEDUP"
              <=> ExactCap(EvTx) > ExactCap(Transactions[h]))

====
